---- MODULE Spec2Model ----
(***************************************************************************)
(* Model of app.py, the e-commerce sales dashboard: the cached loader      *)
(* load_data (existence check, read_csv, column-name cleaning, date        *)
(* detection), the required-column check, the sidebar filters, the date    *)
(* filter and the rendering steps that follow them.                        *)
(*                                                                         *)
(* A column name is a sequence of one-character strings, so that strip,    *)
(* replace, lower and the substring test act on it as they do in Python.   *)
(* A data frame is [columns, index, rows]: the column labels in order      *)
(* (duplicates allowed, as in pandas), the row labels, and the rows, each  *)
(* a sequence of cells aligned with the columns.                           *)
(***************************************************************************)
EXTENDS Integers, Sequences, FiniteSets, TLC

VARIABLES
    file,             \* what is at Path("ECOM sales.csv") now
    cache,            \* the st.cache_data entry of load_data
    pc,               \* position of the script run
    df,               \* the data frame the script works on
    tried,            \* column positions pd.to_datetime was called on
    renamed,          \* column positions df.rename relabelled
    once,             \* result of the first application of the Normalizer
    missing,          \* the list built at line 58
    region_filter,    \* value of the Region multiselect
    category_filter,  \* value of the Category multiselect
    min_date,         \* line 91
    max_date,         \* line 92
    date_range,       \* value of the date_input widget
    filtered_df,      \* the FilteredView
    executed          \* steps of the current run, in order

vars == <<file, cache, pc, df, tried, renamed, once, missing, region_filter,
          category_filter, min_date, max_date, date_range, filtered_df, executed>>

----------------------------------------------------------------------------
(* Bounds of the model *)

MaxCols == 3        \* columns of a header list given to the Normalizer
MaxRows == 2        \* rows of a dataset given to the Filter Engine

----------------------------------------------------------------------------
(* Cells *)

NaN == [k |-> "nan", v |-> 0]              \* NaN / NaT / None
Word(n) == [k |-> "word", v |-> n]         \* a string that is not a date
DateStr(t) == [k |-> "datestr", v |-> t]   \* a string that parses to instant t
BadStr == [k |-> "badstr", v |-> 0]        \* a value to_datetime raises on
Num(n) == [k |-> "num", v |-> n]           \* a number
Ts(t) == [k |-> "ts", v |-> t]             \* a Timestamp, t ticks after day 0

isna(c) == c.k = "nan"

----------------------------------------------------------------------------
(* Strings *)

Whitespace == {" ", "\t"}

UpperCase == <<"A","B","C","D","E","F","G","H","I","J","K","L","M",
               "N","O","P","Q","R","S","T","U","V","W","X","Y","Z">>
LowerCase == <<"a","b","c","d","e","f","g","h","i","j","k","l","m",
               "n","o","p","q","r","s","t","u","v","w","x","y","z">>

LowerChar(c) ==
    IF \E n \in DOMAIN UpperCase : UpperCase[n] = c
    THEN LowerCase[CHOOSE n \in DOMAIN UpperCase : UpperCase[n] = c]
    ELSE c

\* str.lower()
lower(s) == [j \in 1..Len(s) |-> LowerChar(s[j])]

\* sub in s
Contains(s, sub) ==
    \E a \in 0..(Len(s) - Len(sub)) : SubSeq(s, a + 1, a + Len(sub)) = sub

RECURSIVE LStrip(_)
LStrip(s) ==
    IF s # <<>> /\ Head(s) \in Whitespace THEN LStrip(Tail(s)) ELSE s

RECURSIVE RStrip(_)
RStrip(s) ==
    IF s # <<>> /\ s[Len(s)] \in Whitespace
    THEN RStrip(SubSeq(s, 1, Len(s) - 1))
    ELSE s

\* df.columns.str.strip()
str_strip(s) == RStrip(LStrip(s))

\* df.columns.str.replace(" ", "_")
str_replace(s) == [j \in 1..Len(s) |-> IF s[j] = " " THEN "_" ELSE s[j]]

DATE == <<"d","a","t","e">>
Order_Date == <<"O","r","d","e","r","_","D","a","t","e">>
Region == <<"R","e","g","i","o","n">>
Category == <<"C","a","t","e","g","o","r","y">>
Sales == <<"S","a","l","e","s">>
Profit == <<"P","r","o","f","i","t">>
Quantity == <<"Q","u","a","n","t","i","t","y">>

required_cols == <<Region, Category, Sales, Profit, Quantity>>

----------------------------------------------------------------------------
(* Data frames *)

NCols(d) == Len(d.columns)
NRows(d) == Len(d.rows)

\* positions of the columns labelled col
Positions(d, col) == {j \in 1..NCols(d) : d.columns[j] = col}

\* col in df.columns
HasColumn(d, col) == Positions(d, col) # {}

\* df[col] for a label that occurs once: the cells of that column, by row
Series(d, col) ==
    LET j == CHOOSE j \in Positions(d, col) : TRUE
    IN  [r \in 1..NRows(d) |-> d.rows[r][j]]

\* pd.read_csv: the header row gives the labels, a repeated header gets the
\* suffix .1, .2, ...; rows are labelled 0..n-1
Digits == <<"1","2","3","4","5","6","7","8","9">>

MangleDupeCols(header) ==
    [j \in 1..Len(header) |->
        LET n == Cardinality({a \in 1..(j - 1) : header[a] = header[j]})
        IN  IF n = 0 THEN header[j] ELSE header[j] \o <<".", Digits[n]>>]

read_csv(f) ==
    [columns |-> MangleDupeCols(f.header),
     index   |-> [r \in 1..Len(f.rows) |-> r - 1],
     rows    |-> f.rows]

----------------------------------------------------------------------------
(* load_data, lines 36-49: the Normalizer *)

\* lines 36-37
CleanColumns(d) ==
    [d EXCEPT !.columns = [j \in 1..NCols(d) |-> str_replace(str_strip(d.columns[j]))]]

\* pd.to_datetime(x, errors="coerce") on one cell
to_datetime(c) ==
    CASE c.k = "datestr" -> Ts(c.v)
      [] c.k = "ts"      -> c
      [] c.k = "num"     -> Ts(c.v)
      [] OTHER           -> NaN

\* pd.to_datetime(df[col], errors="coerce") raises: df[col] is a DataFrame
\* when the label is repeated, and to_datetime cannot assemble one; or a
\* value of the column is one the parser raises on
ToDatetimeRaises(d, col) ==
    \/ Cardinality(Positions(d, col)) > 1
    \/ \E r \in 1..NRows(d) : Series(d, col)[r].k = "badstr"

\* line 43 for a label that occurs once
AssignDatetime(d, col) ==
    [d EXCEPT !.rows = [r \in 1..NRows(d) |->
        [j \in 1..NCols(d) |->
            IF d.columns[j] = col THEN to_datetime(d.rows[r][j]) ELSE d.rows[r][j]]]]

\* line 44: rename relabels every column carrying the label
Rename(d, col, new) ==
    [d EXCEPT !.columns = [j \in 1..NCols(d) |->
        IF d.columns[j] = col THEN new ELSE d.columns[j]]]

\* lines 40-47, from loop position j on; t is the set of positions tried
RECURSIVE DetectNoBreak(_, _, _, _)
DetectNoBreak(d, names, j, t) ==
    IF j > Len(names) THEN [df |-> d, tried |-> t, renamed |-> {}]
    ELSE IF Contains(lower(names[j]), DATE) /\ HasColumn(d, names[j])
         THEN IF ToDatetimeRaises(d, names[j])
              THEN DetectNoBreak(d, names, j + 1, t \cup {j})
              ELSE LET rest == DetectNoBreak(
                                  Rename(AssignDatetime(d, names[j]), names[j], Order_Date),
                                  names, j + 1, t \cup {j})
                   IN  [rest EXCEPT !.renamed = @ \cup Positions(d, names[j])]
         ELSE DetectNoBreak(d, names, j + 1, t)

RECURSIVE DetectDate(_, _, _, _)
DetectDate(d, names, j, t) ==
    IF j > Len(names) THEN [df |-> d, tried |-> t, renamed |-> {}]
    ELSE IF Contains(lower(names[j]), DATE)
         THEN IF ToDatetimeRaises(d, names[j])
              THEN DetectDate(d, names, j + 1, t \cup {j})
              ELSE [df      |-> Rename(AssignDatetime(d, names[j]), names[j], Order_Date),
                    tried   |-> t \cup {j},
                    renamed |-> Positions(d, names[j])]
         ELSE DetectDate(d, names, j + 1, t)

\* lines 36-49
Normalizer(d) ==
    LET c == CleanColumns(d)
    IN  DetectDate(c, c.columns, 1, {})

----------------------------------------------------------------------------
(* Values of the variables a specification does not use *)

EmptyFrame == [columns |-> <<>>, index |-> <<>>, rows |-> <<>>]
NoCache == [kind |-> "empty"]
NoDates == <<>>

----------------------------------------------------------------------------
(* The Normalizer applied to header lists: SpecNormalizer *)

RawHeaders ==
    { <<" ","O","r","d","e","r"," ","D","a","t","e"," ">>,
      <<"S","h","i","p"," ","D","a","t","e">>,
      <<"O","r","d","e","r","_","D","a","t","e">>,
      <<"U","P","D","A","T","E","D","\t">>,
      <<"R","e","g","i","o","n">> }

NormCells == {DateStr(0), Word(0), BadStr}

\* CSV files of n columns and one data row
NormFiles(n) ==
    { [kind |-> "csv", header |-> h, rows |-> <<cells>>] :
        h \in [1..n -> RawHeaders], cells \in [1..n -> NormCells] }

InitNormalizer ==
    /\ \E n \in 1..MaxCols : file \in NormFiles(n)
    /\ df = read_csv(file)
    /\ pc = "raw"
    /\ cache = NoCache
    /\ tried = {}
    /\ renamed = {}
    /\ once = EmptyFrame
    /\ missing = <<>>
    /\ region_filter = {}
    /\ category_filter = {}
    /\ min_date = NaN
    /\ max_date = NaN
    /\ date_range = NoDates
    /\ filtered_df = EmptyFrame
    /\ executed = <<>>

\* lines 36-49 on the frame read_csv returned
Normalize ==
    /\ pc = "raw"
    /\ LET res == Normalizer(df)
       IN  /\ df' = res.df
           /\ tried' = res.tried
           /\ renamed' = res.renamed
           /\ once' = res.df
    /\ pc' = "normalized"
    /\ executed' = Append(executed, "normalize")
    /\ UNCHANGED <<file, cache, missing, region_filter, category_filter,
                   min_date, max_date, date_range, filtered_df>>

\* lines 36-49 again, on their own result
Renormalize ==
    /\ pc = "normalized"
    /\ LET res == Normalizer(df)
       IN  /\ df' = res.df
           /\ tried' = res.tried
           /\ renamed' = res.renamed
    /\ pc' = "renormalized"
    /\ executed' = Append(executed, "normalize")
    /\ UNCHANGED <<file, cache, once, missing, region_filter, category_filter,
                   min_date, max_date, date_range, filtered_df>>

NextNormalizer == Normalize \/ Renormalize

SpecNormalizer == InitNormalizer /\ [][NextNormalizer]_vars

\* the cleaned frame the date detection starts from
Cleaned == CleanColumns(read_csv(file))

\* columns whose cleaned name contains "date", case-insensitively
Candidates(d) == {j \in 1..NCols(d) : Contains(lower(d.columns[j]), DATE)}

\* candidates whose parsing does not raise
Parseable(d) == {j \in Candidates(d) : ~ToDatetimeRaises(d, d.columns[j])}

Leftmost(S) == CHOOSE j \in S : \A a \in S : j <= a

\* C5: with two or more candidate columns, the leftmost candidate whose
\* parsing does not raise is the one parsed and renamed to Order_Date; the
\* candidates left of it were tried and skipped, nothing right of it is
\* tried, parsed or renamed; with no parseable candidate nothing changes.
C5_LeftmostParseableDate ==
    (pc = "normalized" /\ Cardinality(Candidates(Cleaned)) >= 2) =>
        IF Parseable(Cleaned) = {}
        THEN df = Cleaned /\ renamed = {} /\ tried = Candidates(Cleaned)
        ELSE LET L == Leftmost(Parseable(Cleaned))
             IN  /\ df.columns = [Cleaned.columns EXCEPT ![L] = Order_Date]
                 /\ renamed = {L}
                 /\ tried = {j \in Candidates(Cleaned) : j <= L}
                 /\ \A r \in 1..NRows(df) : \A j \in 1..NCols(df) :
                        df.rows[r][j] = IF j = L THEN to_datetime(Cleaned.rows[r][j])
                                                 ELSE Cleaned.rows[r][j]

\* a raising candidate was skipped, the next one was taken, and a further
\* candidate stands to its right
C5_Witness ==
    /\ pc = "normalized"
    /\ Parseable(Cleaned) # {}
    /\ \E a \in Candidates(Cleaned) : a < Leftmost(Parseable(Cleaned))
    /\ \E b \in Parseable(Cleaned) : b > Leftmost(Parseable(Cleaned))
    /\ renamed = {Leftmost(Parseable(Cleaned))}

\* C6: the Normalizer's output has at most one column named Order_Date.
C6_AtMostOneOrderDate ==
    pc = "normalized" => Cardinality(Positions(df, Order_Date)) <= 1

\* C7: applying the Normalizer to its own output changes neither the column
\* names nor the cells, and each application keeps the row count.
C7_NormalizerIdempotent ==
    /\ pc \in {"normalized", "renormalized"} => NRows(df) = Len(file.rows)
    /\ pc = "renormalized" => df = once

----------------------------------------------------------------------------
(* Lines 70-104: the sidebar filters and the date filter *)

Days == {0, 1}                     \* a datetime.date, as days after day 0
TimesOfDay == {0, 1}               \* midnight, and a later time of the day
TicksPerDay == Cardinality(TimesOfDay)

\* pd.to_datetime(date): midnight of that day
DateToTimestamp(day) == Ts(day * TicksPerDay)

\* Timestamp.date(), which date_input applies to the defaults it is given
DayOf(ts) == ts.v \div TicksPerDay

\* the cell of row position r in the column labelled col (label occurs once)
Cell(d, r, col) == d.rows[r][CHOOSE j \in Positions(d, col) : TRUE]

\* sorted(df[col].dropna().unique()): the distinct non-null values
Options(d, col) == {Cell(d, r, col) : r \in 1..NRows(d)} \ {NaN}

\* Series.isin on one cell, with an empty list standing for "no filter"
isin_EmptyIsAll(c, values) == values = {} \/ c \in values

\* Series.isin on one cell; the option lists never hold NaN
isin(c, values) == c \in values

\* df[mask]: the rows whose position is in keep, in order, labels kept
TakeRows(d, keep) ==
    LET pos == SelectSeq([r \in 1..NRows(d) |-> r], LAMBDA r : r \in keep)
    IN  [columns |-> d.columns,
         index   |-> [a \in 1..Len(pos) |-> d.index[pos[a]]],
         rows    |-> [a \in 1..Len(pos) |-> d.rows[pos[a]]]]

\* lines 82-85
CategoricalFilter(d, rf, cf) ==
    TakeRows(d, {r \in 1..NRows(d) :
                    isin(Cell(d, r, Region), rf) /\ isin(Cell(d, r, Category), cf)})

\* Series.min() and Series.max() of a datetime column: nulls skipped, NaT
\* when nothing is left
NonNull(d, col) == {Cell(d, r, col).v : r \in {a \in 1..NRows(d) : ~isna(Cell(d, a, col))}}

SeriesMin(d, col) ==
    IF NonNull(d, col) = {} THEN NaN
    ELSE Ts(CHOOSE t \in NonNull(d, col) : \A u \in NonNull(d, col) : t <= u)

SeriesMax(d, col) ==
    IF NonNull(d, col) = {} THEN NaN
    ELSE Ts(CHOOSE t \in NonNull(d, col) : \A u \in NonNull(d, col) : t >= u)

\* comparisons of a datetime cell with a Timestamp: False for NaT
Ge(c, t) == ~isna(c) /\ c.v >= t.v
Le(c, t) == ~isna(c) /\ c.v <= t.v

\* lines 101-104 with the upper endpoint left out
DateFilterNoUpper(d, start_date, end_date) ==
    TakeRows(d, {r \in 1..NRows(d) :
                    Ge(Cell(d, r, Order_Date), DateToTimestamp(start_date))})

\* lines 101-104
DateFilter(d, start_date, end_date) ==
    TakeRows(d, {r \in 1..NRows(d) :
                    /\ Ge(Cell(d, r, Order_Date), DateToTimestamp(start_date))
                    /\ Le(Cell(d, r, Order_Date), DateToTimestamp(end_date))})

\* what date_input can return: one date while a range is being picked, or two
DateRanges == {<<a>> : a \in Days} \cup {<<a, b>> : a \in Days, b \in Days}

\* lines 70-85: the two multiselects return any subset of their options
Sidebar ==
    /\ pc = "sidebar"
    /\ \E rf \in SUBSET Options(df, Region), cf \in SUBSET Options(df, Category) :
          /\ region_filter' = rf
          /\ category_filter' = cf
          /\ filtered_df' = CategoricalFilter(df, rf, cf)
    /\ pc' = "date"
    /\ executed' = Append(executed, "filter")
    /\ UNCHANGED <<file, cache, df, tried, renamed, once, missing,
                   min_date, max_date, date_range>>

\* line 90, condition false
NoDateColumn ==
    /\ pc = "date"
    /\ ~HasColumn(filtered_df, Order_Date)
    /\ pc' = "kpi"
    /\ UNCHANGED <<file, cache, df, tried, renamed, once, missing, region_filter,
                   category_filter, min_date, max_date, date_range, filtered_df,
                   executed>>

\* lines 90-104
DateBlock ==
    /\ pc = "date"
    /\ HasColumn(filtered_df, Order_Date)
    /\ min_date' = SeriesMin(filtered_df, Order_Date)
    /\ max_date' = SeriesMax(filtered_df, Order_Date)
    /\ \E dr \in DateRanges :
          /\ date_range' = dr
          /\ filtered_df' = IF Len(dr) = 2
                            THEN DateFilter(filtered_df, dr[1], dr[2])
                            ELSE filtered_df
    /\ pc' = "kpi"
    /\ executed' = Append(executed, "date_filter")
    /\ UNCHANGED <<file, cache, df, tried, renamed, once, missing,
                   region_filter, category_filter>>

\* lines 90-97 when min() and max() are NaT: date_input is handed NaT, which
\* it may reject; the run then ends with that exception
DateInputRaises ==
    /\ pc = "date"
    /\ HasColumn(filtered_df, Order_Date)
    /\ isna(SeriesMin(filtered_df, Order_Date))
    /\ min_date' = NaN
    /\ max_date' = NaN
    /\ pc' = "exception"
    /\ executed' = Append(executed, "date_input_raised")
    /\ UNCHANGED <<file, cache, df, tried, renamed, once, missing,
                   region_filter, category_filter, date_range, filtered_df>>

----------------------------------------------------------------------------
(* The Filter Engine on validated datasets: SpecFilter *)

OrderDateHeader == <<"O","r","d","e","r"," ","D","a","t","e">>

Regions == {Word(1), Word(2)}
Categories == {Word(1)}
Instants == {DateStr(d * TicksPerDay + t) : d \in Days, t \in TimesOfDay}

\* rows of a CSV file with the five required columns, without and with a
\* date column; an empty CSV cell is read as NaN
PlainRows ==
    {<<r, c, Num(1), Num(1), Num(1)>> :
        r \in Regions \cup {NaN}, c \in Categories \cup {NaN}}
DatedRows ==
    {<<r, c, Num(1), Num(1), Num(1), t>> :
        r \in Regions \cup {NaN}, c \in Categories \cup {NaN}, t \in Instants \cup {NaN}}

\* CSV files of n data rows
PlainFiles(n) ==
    { [kind |-> "csv", header |-> required_cols, rows |-> rs] :
        rs \in [1..n -> PlainRows] }
DatedFiles(n) ==
    { [kind |-> "csv", header |-> Append(required_cols, OrderDateHeader), rows |-> rs] :
        rs \in [1..n -> DatedRows] }

InitFilter ==
    /\ \E n \in 0..MaxRows : file \in PlainFiles(n) \/ file \in DatedFiles(n)
    /\ df = Normalizer(read_csv(file)).df
    /\ pc = "sidebar"
    /\ cache = NoCache
    /\ tried = {}
    /\ renamed = {}
    /\ once = EmptyFrame
    /\ missing = <<>>
    /\ region_filter = {}
    /\ category_filter = {}
    /\ min_date = NaN
    /\ max_date = NaN
    /\ date_range = NoDates
    /\ filtered_df = EmptyFrame
    /\ executed = <<>>

NextFilter == Sidebar \/ NoDateColumn \/ DateBlock \/ DateInputRaises

SpecFilter == InitFilter /\ [][NextFilter]_vars

\* the selection every control has before the user touches it
DefaultSelection ==
    /\ region_filter = Options(df, Region)
    /\ category_filter = Options(df, Category)
    /\ HasColumn(df, Order_Date) =>
          /\ ~isna(min_date)
          /\ date_range = <<DayOf(min_date), DayOf(max_date)>>

\* C1: with the full default selection the FilteredView is the input
\* dataset, row for row and in order, null cells included.
C1_DefaultSelectionIsIdentity ==
    (pc = "kpi" /\ DefaultSelection) => filtered_df = df

\* C2: an empty region selection, or an empty category selection, gives a
\* FilteredView of zero rows whatever the other selections are.
C2_EmptySelectionEmptyView ==
    (pc \in {"date", "kpi", "exception"} /\ (region_filter = {} \/ category_filter = {}))
        => NRows(filtered_df) = 0

\* nothing selected in Region, something in Category, a two-endpoint
\* interval, and a row every other predicate would let through
C2_Witness ==
    /\ pc = "kpi"
    /\ region_filter = {}
    /\ category_filter # {}
    /\ HasColumn(df, Order_Date)
    /\ Len(date_range) = 2
    /\ \E r \in 1..NRows(df) :
          /\ ~isna(Cell(df, r, Region))
          /\ Cell(df, r, Category) \in category_filter
          /\ Ge(Cell(df, r, Order_Date), DateToTimestamp(date_range[1]))
          /\ Le(Cell(df, r, Order_Date), DateToTimestamp(date_range[2]))
    /\ NRows(filtered_df) = 0

\* row positions of df that a two-endpoint interval keeps: selected region,
\* selected category, a date that is not null and lies between the
\* endpoints, each taken at midnight as pd.to_datetime(date) gives it
KeptByInterval ==
    {r \in 1..NRows(df) :
        /\ Cell(df, r, Region) \in region_filter
        /\ Cell(df, r, Category) \in category_filter
        /\ ~isna(Cell(df, r, Order_Date))
        /\ date_range[1] * TicksPerDay <= Cell(df, r, Order_Date).v
        /\ Cell(df, r, Order_Date).v <= date_range[2] * TicksPerDay}

\* C8: with an Order_Date column and an interval [start, end], the
\* FilteredView is exactly the rows that pass the categorical filter, have a
\* non-null date and lie in the interval, endpoints included; it is empty
\* when start > end, and no error outcome comes with a supplied interval.
C8_DateIntervalInclusive ==
    /\ (pc = "kpi" /\ HasColumn(df, Order_Date) /\ Len(date_range) = 2) =>
          /\ {filtered_df.index[a] : a \in 1..NRows(filtered_df)}
                = {df.index[r] : r \in KeptByInterval}
          /\ NRows(filtered_df) = Cardinality(KeptByInterval)
          /\ \A a \in 1..NRows(filtered_df) :
                filtered_df.rows[a] = df.rows[filtered_df.index[a] + 1]
          /\ \A a, b \in 1..NRows(filtered_df) :
                a < b => filtered_df.index[a] < filtered_df.index[b]
          /\ date_range[1] > date_range[2] => NRows(filtered_df) = 0
    /\ Len(date_range) = 2 => pc # "exception"

\* a row dated exactly at the upper endpoint is kept while a row with a
\* null date, selected region and category, is dropped
C8_Witness ==
    /\ pc = "kpi"
    /\ HasColumn(df, Order_Date)
    /\ Len(date_range) = 2
    /\ date_range[1] < date_range[2]
    /\ \E a \in 1..NRows(filtered_df) :
          filtered_df.rows[a][NCols(df)] = DateToTimestamp(date_range[2])
    /\ \E r \in 1..NRows(df) :
          /\ Cell(df, r, Region) \in region_filter
          /\ Cell(df, r, Category) \in category_filter
          /\ isna(Cell(df, r, Order_Date))
    /\ NRows(filtered_df) < NRows(df)

\* C9: the default interval of the date picker is [min, max] of Order_Date
\* over all rows of the loaded dataset, whatever regions and categories are
\* selected (stated for the runs in which the picker is handed real dates).
C9_DefaultIntervalOverWholeDataset ==
    (pc = "kpi" /\ HasColumn(df, Order_Date) /\ ~isna(min_date)) =>
        /\ min_date = SeriesMin(df, Order_Date)
        /\ max_date = SeriesMax(df, Order_Date)

----------------------------------------------------------------------------
(* The script run after run, with the cache and the input file: SpecRun *)

Absent == [kind |-> "absent"]          \* no file at the path
Malformed == [kind |-> "malformed"]    \* a file read_csv raises on

Range(q) == {q[a] : a \in 1..Len(q)}

\* the one data row of a file with header h
RunRow(h) ==
    [j \in 1..Len(h) |->
        CASE h[j] \in {Region, Category} -> Word(1)
          [] h[j] = OrderDateHeader      -> DateStr(1)
          [] OTHER                       -> Num(1)]

\* CSV files whose header is any non-empty selection of the required
\* columns, in their usual order, with or without a date column
RunHeaders ==
    { SelectSeq(Append(required_cols, OrderDateHeader), LAMBDA c : c \in S) :
        S \in (SUBSET (Range(required_cols) \cup {OrderDateHeader})) \ {{}} }

RunFiles ==
    { [kind |-> "csv", header |-> h, rows |-> <<RunRow(h)>>] : h \in RunHeaders }

InitRun ==
    /\ file \in RunFiles \cup {Absent, Malformed}
    /\ cache = NoCache
    /\ pc = "start"
    /\ df = EmptyFrame
    /\ tried = {}
    /\ renamed = {}
    /\ once = EmptyFrame
    /\ missing = <<>>
    /\ region_filter = {}
    /\ category_filter = {}
    /\ min_date = NaN
    /\ max_date = NaN
    /\ date_range = NoDates
    /\ filtered_df = EmptyFrame
    /\ executed = <<>>

\* line 51 with an entry in the cache: st.cache_data keys the entry on the
\* function and its arguments, and load_data has none; the body is not run
LoadCached ==
    /\ pc = "start"
    /\ cache.kind = "hit"
    /\ df' = cache.value
    /\ pc' = "validate"
    /\ executed' = Append(executed, "load_cached")
    /\ UNCHANGED <<file, cache, tried, renamed, once, missing, region_filter,
                   category_filter, min_date, max_date, date_range, filtered_df>>

\* lines 25-27: st.error, then st.stop ends the run; nothing is cached
LoadNotFound ==
    /\ pc = "start"
    /\ cache.kind = "empty"
    /\ file.kind = "absent"
    /\ pc' = "stopped"
    /\ executed' = Append(executed, "error_not_found")
    /\ UNCHANGED <<file, cache, df, tried, renamed, once, missing, region_filter,
                   category_filter, min_date, max_date, date_range, filtered_df>>

\* lines 29-33
LoadParseError ==
    /\ pc = "start"
    /\ cache.kind = "empty"
    /\ file.kind = "malformed"
    /\ pc' = "stopped"
    /\ executed' = Append(executed, "error_parse")
    /\ UNCHANGED <<file, cache, df, tried, renamed, once, missing, region_filter,
                   category_filter, min_date, max_date, date_range, filtered_df>>

\* lines 23-49 and 51 on a readable file: the result is cached and returned
LoadOk ==
    /\ pc = "start"
    /\ cache.kind = "empty"
    /\ file.kind = "csv"
    /\ LET res == Normalizer(read_csv(file))
       IN  /\ df' = res.df
           /\ cache' = [kind |-> "hit", value |-> res.df]
           /\ tried' = res.tried
           /\ renamed' = res.renamed
    /\ pc' = "validate"
    /\ executed' = Append(executed, "load")
    /\ UNCHANGED <<file, once, missing, region_filter, category_filter,
                   min_date, max_date, date_range, filtered_df>>

\* line 58 without the last required column
MissingButLast(d) ==
    SelectSeq(SubSeq(required_cols, 1, Len(required_cols) - 1),
              LAMBDA c : ~HasColumn(d, c))

\* line 58
Missing(d) == SelectSeq(required_cols, LAMBDA c : ~HasColumn(d, c))

\* lines 58-63 without the st.stop() of line 63
ValidateFailNoStop ==
    /\ pc = "validate"
    /\ Missing(df) # <<>>
    /\ missing' = Missing(df)
    /\ pc' = "sidebar"
    /\ executed' = Append(executed, "error_schema")
    /\ UNCHANGED <<file, cache, df, tried, renamed, once, region_filter,
                   category_filter, min_date, max_date, date_range, filtered_df>>

\* lines 58-63, a required column missing
ValidateFail ==
    /\ pc = "validate"
    /\ Missing(df) # <<>>
    /\ missing' = Missing(df)
    /\ pc' = "stopped"
    /\ executed' = Append(executed, "error_schema")
    /\ UNCHANGED <<file, cache, df, tried, renamed, once, region_filter,
                   category_filter, min_date, max_date, date_range, filtered_df>>

\* lines 58-60, nothing missing
ValidateOk ==
    /\ pc = "validate"
    /\ Missing(df) = <<>>
    /\ missing' = Missing(df)
    /\ pc' = "sidebar"
    /\ executed' = Append(executed, "validated")
    /\ UNCHANGED <<file, cache, df, tried, renamed, once, region_filter,
                   category_filter, min_date, max_date, date_range, filtered_df>>

\* a rendering step: it reads filtered_df and changes nothing
Render(from, to) ==
    /\ pc = from
    /\ pc' = to
    /\ executed' = Append(executed, from)
    /\ UNCHANGED <<file, cache, df, tried, renamed, once, missing, region_filter,
                   category_filter, min_date, max_date, date_range, filtered_df>>

\* lines 109-115
KpiMetrics == Render("kpi", "charts")

\* lines 120-173
Charts == Render("charts", "download")

\* lines 178-187
DownloadButton == Render("download", "preview")

\* lines 192-193
DataPreview == Render("preview", "done")

Ended == {"done", "stopped", "exception"}

\* a user interaction or a reload runs the script again from line 1; only
\* the cache outlives the run
Rerun ==
    /\ pc \in Ended
    /\ pc' = "start"
    /\ df' = EmptyFrame
    /\ tried' = {}
    /\ renamed' = {}
    /\ missing' = <<>>
    /\ region_filter' = {}
    /\ category_filter' = {}
    /\ min_date' = NaN
    /\ max_date' = NaN
    /\ date_range' = NoDates
    /\ filtered_df' = EmptyFrame
    /\ executed' = <<>>
    /\ UNCHANGED <<file, cache, once>>

\* between two runs the file is replaced, removed or created
ModifyFile ==
    /\ pc \in Ended
    /\ \E f \in RunFiles \cup {Absent, Malformed} :
          /\ f # file
          /\ file' = f
    /\ UNCHANGED <<cache, pc, df, tried, renamed, once, missing, region_filter,
                   category_filter, min_date, max_date, date_range, filtered_df,
                   executed>>

NextRun ==
    \/ LoadCached \/ LoadNotFound \/ LoadParseError \/ LoadOk
    \/ ValidateFail \/ ValidateOk
    \/ Sidebar \/ NoDateColumn \/ DateBlock \/ DateInputRaises
    \/ KpiMetrics \/ Charts \/ DownloadButton \/ DataPreview
    \/ Rerun \/ ModifyFile

SpecRun == InitRun /\ [][NextRun]_vars

\* the run has been through the required-column check
Validated == \E a \in 1..Len(executed) : executed[a] \in {"validated", "error_schema"}

SchemaError == \E a \in 1..Len(executed) : executed[a] = "error_schema"

\* C3: the Validator fails exactly when a required column is absent from
\* the normalized columns; the names it reports are exactly the required
\* names that are absent; with all five present it does not fail and the
\* dataset is the one the Loader returned.
C3_ValidatorExact ==
    Validated =>
        LET absent == Range(required_cols) \ Range(df.columns)
        IN  /\ SchemaError <=> absent # {}
            /\ SchemaError => pc = "stopped"
            /\ Range(missing) = absent
            /\ Len(missing) = Cardinality(absent)
            /\ df = cache.value
            /\ absent = {} => pc \notin {"stopped", "validate"}

\* the check failed with some required columns present and several absent
C3_Witness ==
    /\ pc = "stopped"
    /\ SchemaError
    /\ Len(missing) >= 2
    /\ \E c \in Range(required_cols) : HasColumn(df, c)

ErrorSteps == {"error_not_found", "error_parse", "error_schema"}

\* C4: once a run has reported a missing file, an unparseable file or a
\* missing column, it executes nothing more: the error is its last step, a
\* Loader error is also its first, no filter is evaluated and nothing is
\* rendered.
C4_ErrorHaltsRun ==
    \A a \in 1..Len(executed) :
        executed[a] \in ErrorSteps =>
            /\ a = Len(executed)
            /\ pc = "stopped"
            /\ executed[a] \in {"error_not_found", "error_parse"} => a = 1
            /\ filtered_df = EmptyFrame
            /\ region_filter = {} /\ category_filter = {} /\ date_range = NoDates

\* a run that loaded a dataset from the cache and stopped at the
\* required-column check
C4_Witness ==
    /\ pc = "stopped"
    /\ executed = <<"load_cached", "error_schema">>
    /\ missing # <<>>

\* C10: the dataset a run works on is the result of loading the input file
\* as it is during that run (the file changes only between runs).
C10_DatasetReflectsCurrentFile ==
    (pc \notin {"start"} \cup Ended) =>
        /\ file.kind = "csv"
        /\ df = Normalizer(read_csv(file)).df

====
